---------------------------- MODULE Spec2Model ----------------------------
(***************************************************************************)
(* A model of gemini_dev.py: the code-block extractor (extract_code), the  *)
(* ask command's save path, and the create_project command, which parses   *)
(* FILE:/fenced-block pairs out of a response and writes them under an     *)
(* output directory.                                                       *)
(*                                                                         *)
(* Text is a sequence of one-character strings.  The two regular           *)
(* expressions are modelled by what a backtracking matcher does: of all    *)
(* the ways the pattern can match at the leftmost start, the one found     *)
(* first in the order greedy (longest first) / lazy (shortest first).      *)
(* "NUL" stands for the character chr(0).                                  *)
(***************************************************************************)
EXTENDS Integers, Sequences, FiniteSets, TLC

VARIABLES
    fs,                \* the filesystem: absolute path -> node
    doc,               \* the chunks the oracle's response was made of
    response_text,     \* response.text
    pc,                \* where the running command is
    run,               \* 1 or 2: which invocation of create_project this is
    matches,           \* create_project: re.findall's list of (path, content)
    idx,               \* create_project: the for loop's position in matches
    created_files,     \* create_project: created_files
    log,               \* create_project: one record per entry the loop handled
    fs0,               \* the filesystem when the current invocation began
    first,             \* what the first invocation left: its files and count
    extract_language,  \* ask: --extract-language (None, or a string)
    output_file,       \* ask: whether --output-file was given
    warned,            \* ask: the fallback warning was printed
    saved,             \* ask: what was written to the output file (or None)
    extracted          \* ask: what extract_code returned at line 115

askVars == <<extract_language, output_file, warned, saved, extracted>>
projectVars == <<run, matches, idx, created_files, log, fs0, first>>

vars == <<fs, doc, response_text, pc, projectVars, askVars>>

-----------------------------------------------------------------------------
(* Bounds *)

MaxChunks == 3

-----------------------------------------------------------------------------
(* Characters and strings *)

\* an optional value: None, or Some(v)
None == <<>>
Some(v) == <<v>>
Val(o) == o[1]

WordChars == {"F", "I", "L", "E", "P", "Y", "S", "H", "a", "b", "e", "f",
              "h", "i", "l", "o", "r", "p", "y", "s", "x", "z"}

\* \s of the re module, on the characters the model uses
IsSpace(c) == c \in {" ", "\n"}

\* \w of the re module
IsWord(c) == c \in WordChars

Min(S) == CHOOSE x \in S : \A y \in S : x <= y
Max(S) == CHOOSE x \in S : \A y \in S : x >= y

\* t[i..j] as a sequence (empty when j < i)
Slice(t, i, j) == [k \in 1..(j - i + 1) |-> t[i + k - 1]]

\* the literal lit stands in t at position p
StartsWith(t, p, lit) ==
    /\ p >= 1
    /\ p + Len(lit) - 1 <= Len(t)
    /\ \A k \in 1..Len(lit) : t[p + k - 1] = lit[k]

AllSpace(t, i, j) == \A k \in i..j : IsSpace(t[k])

\* how many characters of the class stand at p, p+1, ...
RECURSIVE SpaceRun(_, _)
SpaceRun(t, p) ==
    IF p <= Len(t) /\ IsSpace(t[p]) THEN 1 + SpaceRun(t, p + 1) ELSE 0

RECURSIVE WordRun(_, _)
WordRun(t, p) ==
    IF p <= Len(t) /\ IsWord(t[p]) THEN 1 + WordRun(t, p + 1) ELSE 0

\* str.strip()
Strip(t) ==
    LET keep == {k \in 1..Len(t) : ~IsSpace(t[k])}
    IN  IF keep = {} THEN <<>> ELSE Slice(t, Min(keep), Max(keep))

LowerChar(c) ==
    CASE c = "P" -> "p"
      [] c = "Y" -> "y"
      [] c = "F" -> "f"
      [] c = "I" -> "i"
      [] c = "L" -> "l"
      [] c = "E" -> "e"
      [] c = "S" -> "s"
      [] c = "H" -> "h"
      [] OTHER -> c

\* str.lower(), on the characters the model uses
Lower(t) == [k \in 1..Len(t) |-> LowerChar(t[k])]

-----------------------------------------------------------------------------
(* The fenced-block part both patterns share:                              *)
(*     (\w+)?\s*\n(.*?)\n```        after the opening ```                  *)

\* "bq" stands for the backquote character
BQ == "bq"
FENCE == <<BQ, BQ, BQ>>
NLFENCE == <<"\n", BQ, BQ, BQ>>
FILEMARK == <<"F", "I", "L", "E", ":">>

\* (.*?)\n``` from b: lazy, so the body ends at the first "\n```" at or
\* after b (DOTALL: the dot matches newlines too); 0 when there is none
RECURSIVE ContentEnd(_, _)
ContentEnd(t, b) ==
    IF b > Len(t) THEN 0
    ELSE IF StartsWith(t, b, NLFENCE) THEN b
    ELSE ContentEnd(t, b + 1)

\* \s*\n(.*?)\n``` from p with \s* taking s characters or, failing that,
\* fewer (greedy): 0 when nothing matches, else the position of the body's
\* first character
RECURSIVE BodyFrom(_, _, _)
BodyFrom(t, p, s) ==
    IF s < 0 THEN 0
    ELSE IF p + s <= Len(t) /\ t[p + s] = "\n" /\ ContentEnd(t, p + s + 1) # 0
    THEN p + s + 1
    ELSE BodyFrom(t, p, s - 1)

BodyStart(t, p) == BodyFrom(t, p, SpaceRun(t, p))

\* (\w+)? from p with the tag taking w characters or, failing that, fewer
\* and at last none (greedy): -1 when no length lets the rest match
RECURSIVE TagFrom(_, _, _)
TagFrom(t, p, w) ==
    IF w < 0 THEN -1
    ELSE IF BodyStart(t, p + w) # 0 THEN w
    ELSE TagFrom(t, p, w - 1)

TagLen(t, p) == TagFrom(t, p, WordRun(t, p))

\* the match of (\w+)?\s*\n(.*?)\n``` from p, the position after "```"
FenceTail(t, p) ==
    LET w == TagLen(t, p)
        b == BodyStart(t, p + w)
        e == ContentEnd(t, b)
    IN  IF w = -1
        THEN [ok |-> FALSE, tag |-> <<>>, content |-> <<>>, end |-> 0]
        ELSE [ok |-> TRUE, tag |-> Slice(t, p, p + w - 1),
              content |-> Slice(t, b, e - 1), end |-> e + 4]

-----------------------------------------------------------------------------
(* extract_code *)

\* the leftmost match of  ```(\w+)?\s*\n(.*?)\n```  at or after pos
RECURSIVE FirstBlock(_, _)
FirstBlock(t, pos) ==
    IF pos > Len(t)
    THEN [ok |-> FALSE, tag |-> <<>>, content |-> <<>>, end |-> 0]
    ELSE IF StartsWith(t, pos, FENCE) /\ TagLen(t, pos + 3) # -1
    THEN FenceTail(t, pos + 3)
    ELSE FirstBlock(t, pos + 1)

\* re.findall(pattern, text, re.DOTALL): the non-overlapping matches from
\* left to right, each a (lang, code) pair; lang is "" for a fence without a tag
RECURSIVE FindBlocks(_, _)
FindBlocks(t, pos) ==
    LET m == FirstBlock(t, pos)
    IN  IF ~m.ok THEN <<>>
        ELSE <<[lang |-> m.tag, code |-> m.content]>> \o FindBlocks(t, m.end)

\* FirstTagged with the two lower() calls left out
FirstTaggedCaseSensitive(ms, language) ==
    LET H == {k \in 1..Len(ms) : ms[k].lang # <<>> /\ ms[k].lang = language}
    IN  IF H = {} THEN 0 ELSE Min(H)

\* the for loop of extract_code: the first (lang, code) with a non-empty lang
\* whose lower() equals language.lower(); 0 when the loop falls through
FirstTagged(ms, language) ==
    LET H == {k \in 1..Len(ms) :
                 ms[k].lang # <<>> /\ Lower(ms[k].lang) = Lower(language)}
    IN  IF H = {} THEN 0 ELSE Min(H)

\* python's truth of an optional string: None and "" are false
Truthy(o) == o # None /\ Val(o) # <<>>

extract_code(text, language) ==
    LET ms == FindBlocks(text, 1)
        k == IF Truthy(language) THEN FirstTagged(ms, Val(language)) ELSE 0
    IN  IF ms = <<>> THEN None
        ELSE IF k # 0 THEN Some(Strip(ms[k].code))
        ELSE Some(Strip(ms[1].code))

-----------------------------------------------------------------------------
(* create_project: the parser                                              *)
(*     ^FILE:\s*(.+?)\s*?\n```(?:\w+)?\s*\n(.*?)\n```   MULTILINE, DOTALL  *)

\* ^ under MULTILINE
LineStart(t, s) == s = 1 \/ t[s - 1] = "\n"

\* the opening fence of a block that matches to its end stands at q
Opens(t, q) == StartsWith(t, q, NLFENCE) /\ TagLen(t, q + 4) # -1

\* where an opening fence that matches to its end can stand in t
OpenSet(t) == {q \in 1..Len(t) : Opens(t, q)}

\* \s*?\n``` from p: lazy, so the nearest of the fences Q that only
\* whitespace separates from p; 0 when there is none
FenceAfter(t, Q, p) ==
    LET R == {q \in Q : q >= p /\ AllSpace(t, p, q - 1)}
    IN  IF R = {} THEN 0 ELSE Min(R)

\* (.+?)\s*?\n``` from a with the group taking l characters or, failing
\* that, more (lazy; DOTALL lets it run over newlines): 0 when no length
\* lets the rest match
RECURSIVE PathFrom(_, _, _, _)
PathFrom(t, Q, a, l) ==
    IF a + l > Len(t) THEN 0
    ELSE IF FenceAfter(t, Q, a + l) # 0 THEN l
    ELSE PathFrom(t, Q, a, l + 1)

\* \s*(.+?)\s*?\n``` from a0 with \s* taking k characters or, failing that,
\* fewer (greedy): -1 when nothing matches
RECURSIVE LeadFrom(_, _, _, _)
LeadFrom(t, Q, a0, k) ==
    IF k < 0 THEN -1
    ELSE IF PathFrom(t, Q, a0 + k, 1) # 0 THEN k
    ELSE LeadFrom(t, Q, a0, k - 1)

\* the match of the whole pattern at s
FileMatch(t, Q, s) ==
    LET a0 == s + 5
        k  == LeadFrom(t, Q, a0, SpaceRun(t, a0))
        a  == a0 + k
        l  == PathFrom(t, Q, a, 1)
        m  == FenceTail(t, FenceAfter(t, Q, a + l) + 4)
    IN  IF ~(LineStart(t, s) /\ StartsWith(t, s, FILEMARK)) \/ k = -1
        THEN [ok |-> FALSE, path |-> <<>>, content |-> <<>>, end |-> 0]
        ELSE [ok |-> TRUE, path |-> Slice(t, a, a + l - 1),
              content |-> m.content, end |-> m.end]

\* the leftmost match at or after pos
RECURSIVE FirstFile(_, _, _)
FirstFile(t, Q, pos) ==
    IF pos > Len(t)
    THEN [ok |-> FALSE, path |-> <<>>, content |-> <<>>, end |-> 0]
    ELSE LET m == FileMatch(t, Q, pos)
         IN  IF m.ok THEN m ELSE FirstFile(t, Q, pos + 1)

\* the non-overlapping matches from left to right, each a (path, content)
RECURSIVE FindFiles(_, _, _)
FindFiles(t, Q, pos) ==
    LET m == FirstFile(t, Q, pos)
    IN  IF ~m.ok THEN <<>>
        ELSE <<[path |-> m.path, content |-> m.content]>> \o FindFiles(t, Q, m.end)

\* re.findall(pattern, response_text, re.MULTILINE | re.DOTALL)
ParseFiles(t) == FindFiles(t, OpenSet(t), 1)

-----------------------------------------------------------------------------
(* Paths.  A path is a sequence of components, each a string; an absolute *)
(* path is the sequence of its components below "/".                       *)

DOTDOT == <<".", ".">>

\* s.split("/")
RECURSIVE SplitSlash(_)
SplitSlash(s) ==
    LET K == {k \in 1..Len(s) : s[k] = "/"}
    IN  IF K = {} THEN <<s>>
        ELSE <<Slice(s, 1, Min(K) - 1)>> \o SplitSlash(Slice(s, Min(K) + 1, Len(s)))

KeepPart(c) == c # <<>> /\ c # <<".">>

\* Path(s).parts without the anchor: pathlib drops empty and "." components
\* and keeps ".."
Parts(s) == SelectSeq(SplitSlash(s), KeepPart)

IsAbsolute(s) == s # <<>> /\ s[1] = "/"

\* output_path / rel_path: an absolute right operand replaces the left one
JoinPath(base, s) == IF IsAbsolute(s) THEN Parts(s) ELSE base \o Parts(s)

IsLink(f, p) == p \in DOMAIN f /\ f[p].kind = "link"
IsFile(f, p) == p \in DOMAIN f /\ f[p].kind = "file"
IsDir(f, p)  == p \in DOMAIN f /\ f[p].kind = "dir"

\* os.path.realpath, not strict: ".." steps up (and stays at "/"), a symbolic
\* link is replaced by its target, anything else is appended whether or not
\* it exists.  Link targets of the model are absolute and link-free.
RECURSIVE Walk(_, _, _)
Walk(f, cur, rest) ==
    IF rest = <<>> THEN cur
    ELSE LET c == Head(rest)
             new == Append(cur, c)
         IN  IF c = DOTDOT
             THEN Walk(f, IF cur = <<>> THEN <<>> ELSE SubSeq(cur, 1, Len(cur) - 1),
                       Tail(rest))
             ELSE IF IsLink(f, new) THEN Walk(f, f[new].data, Tail(rest))
             ELSE Walk(f, new, Tail(rest))

\* Path.resolve()
Resolve(f, p) == Walk(f, <<>>, p)

\* Path.resolve() raises ValueError (embedded null byte) when a component
\* holds chr(0)
ResolveRaises(p) == \E k \in 1..Len(p) : \E j \in 1..Len(p[k]) : p[k][j] = "NUL"

\* a in b.parents: a is a proper ancestor of b
InParents(a, b) == Len(b) > Len(a) /\ SubSeq(b, 1, Len(a)) = a

\* Contained with "in abs_path.parents" taken for "== abs_path.parent"
ContainedParentOnly(root, abs_path) ==
    abs_path # <<>> /\ SubSeq(abs_path, 1, Len(abs_path) - 1) = root

\* Contained with the root itself let through
ContainedOrEqual(root, abs_path) == abs_path = root \/ InParents(root, abs_path)

\* line 194 negated: the entry is let through to the write
Contained(root, abs_path) == InParents(root, abs_path)

Dir == [kind |-> "dir", data |-> <<>>]
File(content) == [kind |-> "file", data |-> content]
Link(target) == [kind |-> "link", data |-> target]

Prefixes(p) == {SubSeq(p, 1, k) : k \in 0..Len(p)}

\* Path.mkdir(parents=True, exist_ok=True) succeeds unless the path or one
\* of its ancestors is a file
MkdirOk(f, p) == \A q \in Prefixes(p) : ~IsFile(f, q)

\* ... and creates every directory of the chain that is missing
Mkdir(f, p) ==
    [q \in DOMAIN f \cup Prefixes(p) |-> IF q \in DOMAIN f THEN f[q] ELSE Dir]

\* open(p, 'w') succeeds when the parent is a directory and p is not one
OpenOk(f, p) ==
    /\ p # <<>>
    /\ IsDir(f, SubSeq(p, 1, Len(p) - 1))
    /\ ~IsDir(f, p)

\* WriteFile that leaves a file that exists as it is
WriteFileKeep(f, p, content) ==
    [q \in DOMAIN f \cup {p} |->
        IF q = p /\ ~IsFile(f, p) THEN File(content) ELSE f[q]]

\* WriteFile with the file opened for appending
WriteFileAppend(f, p, content) ==
    [q \in DOMAIN f \cup {p} |->
        IF q # p THEN f[q]
        ELSE IF IsFile(f, p) THEN File(f[p].data \o content)
        ELSE File(content)]

\* with open(p, 'w') as f: f.write(content): the file is created or
\* truncated and holds content
WriteFile(f, p, content) ==
    [q \in DOMAIN f \cup {p} |-> IF q = p THEN File(content) ELSE f[q]]

-----------------------------------------------------------------------------
(* What the oracle answers: a response is a few chunks, one after another *)

Block(path, tag, content) ==
    FILEMARK \o <<" ">> \o path \o <<"\n">> \o FENCE \o tag \o <<"\n">>
        \o content \o <<"\n">> \o FENCE \o <<"\n">>

Fenced(tag, content) ==
    FENCE \o tag \o <<"\n">> \o content \o <<"\n">> \o FENCE \o <<"\n">>

\* the paths the FILE blocks name
FilePaths == <<
    <<"a">>,                    \* a
    <<"a">>,                    \* a, again
    <<"a", "/", "b">>,          \* a/b
    <<".", ".", "/", "e">>,     \* ../e
    <<".">>,                    \* .
    <<"l", "/", "x">>,          \* l/x
    <<"a", "NUL">>              \* a<chr(0)>
>>

\* ... and what they hold
FileContents == << <<"x">>, <<" ", "y", " ">>, <<"x">>, <<"x">>, <<"x">>, <<"x">>, <<"x">> >>

Chunks == <<
    Block(FilePaths[1], <<>>, FileContents[1]),          \* 1  FILE: a
    Block(FilePaths[2], <<"p", "y">>, FileContents[2]),  \* 2  FILE: a, other content
    Block(FilePaths[3], <<>>, FileContents[3]),          \* 3  FILE: a/b
    Block(FilePaths[4], <<>>, FileContents[4]),          \* 4  FILE: ../e
    Block(FilePaths[5], <<>>, FileContents[5]),          \* 5  FILE: .
    Block(FilePaths[6], <<>>, FileContents[6]),          \* 6  FILE: l/x
    Block(FilePaths[7], <<>>, FileContents[7]),          \* 7  FILE: a<chr(0)>
    FILEMARK \o <<" ", "b", "\n">>,                      \* 8  a marker line alone
    <<"h", "i", "\n">>,                                  \* 9  prose
    Fenced(<<>>, <<"x">>),                               \* 10 a block without a tag
    Fenced(<<"p", "y">>, <<" ", "y", " ">>),             \* 11 a python block
    Fenced(<<"s", "h">>, <<"z">>),                       \* 12 a shell block
    Fenced(<<"P", "Y">>, <<" ">>)                        \* 13 a blank PY block
>>

\* the chunks of a well-formed FILE block
FileBlocks == 1..7
\* the chunks without a fence: the marker line alone, and prose
NoBlockChunks == {8, 9}
\* what create_project's response is drawn from
ProjectChunks == 1..9
\* what ask's response is drawn from
AskChunks == 9..13

Docs(C) == UNION {[1..n -> C] : n \in 0..MaxChunks}

RECURSIVE Flatten(_)
Flatten(d) == IF d = <<>> THEN <<>> ELSE Chunks[Head(d)] \o Flatten(Tail(d))

-----------------------------------------------------------------------------
(* The filesystems a command can start in.  --output-dir is /r (click has *)
(* resolved it, and refuses an existing file); /o lies outside it.         *)

output_path == << <<"r">> >>
Outside == << <<"o">> >>

FsNoRoot == (<<>> :> Dir) @@ (Outside :> Dir)
FsEmpty == FsNoRoot @@ (output_path :> Dir)
\* /r/l is a symbolic link to /o
FsLink == FsEmpty @@ (Append(output_path, <<"l">>) :> Link(Outside))
\* ... and /r/a is a file already
FsFile == FsLink @@ (Append(output_path, <<"a">>) :> File(<<"o", "l", "d">>))
\* ... or /r/a is a directory
FsDir == FsLink @@ (Append(output_path, <<"a">>) :> Dir)

FsChoices == {FsNoRoot, FsFile, FsDir}

-----------------------------------------------------------------------------
(* create_project *)

\* Path(rel_path_str.strip())
RelPath(m) == [anchored |-> IsAbsolute(Strip(m.path)), parts |-> Parts(Strip(m.path))]

\* output_path / rel_path, before resolve()
Joined(m) == JoinPath(output_path, Strip(m.path))

\* RootMade with the output directory made before the matches are looked at
RootMadeAlways(f, ms) == Mkdir(f, output_path)

\* lines 185-189: nothing is touched when there is no match; otherwise the
\* output directory is made before the loop
RootMade(f, ms) == IF ms = <<>> THEN f ELSE Mkdir(f, output_path)

\* Path.mkdir(parents=True, exist_ok=True) on the parent, then
\* open(p, 'w') and write, as both commands do: a failing step leaves what
\* was done before it
Written(f, p, data) ==
    LET parent == SubSeq(p, 1, Len(p) - 1)
        g == Mkdir(f, parent)
    IN  IF ~MkdirOk(f, parent) THEN f
        ELSE IF ~OpenOk(g, p) THEN g
        ELSE WriteFile(g, p, data)

WriteOk(f, p) ==
    LET parent == SubSeq(p, 1, Len(p) - 1)
    IN  MkdirOk(f, parent) /\ OpenOk(Mkdir(f, parent), p)

\* Outcome with the check made on the joined path, resolve() left out
OutcomeUnresolved(f, m) ==
    LET abs_path == Resolve(f, Joined(m))
    IN  IF ResolveRaises(Joined(m)) THEN "raise"
        ELSE IF ~Contained(output_path, Joined(m)) THEN "escape"
        ELSE IF ~WriteOk(f, abs_path) THEN "error"
        ELSE "created"

\* what one pass of the loop body does with entry m on filesystem f
Outcome(f, m) ==
    LET abs_path == Resolve(f, Joined(m))
    IN  IF ResolveRaises(Joined(m)) THEN "raise"
        ELSE IF ~Contained(Resolve(f, output_path), abs_path) THEN "escape"
        ELSE IF ~WriteOk(f, abs_path) THEN "error"
        ELSE "created"

Terminal == {"done", "parse_error", "aborted", "comm_error"}

\* chat.send_message raises: the outer except reports it
OracleFails ==
    /\ pc = "start"
    /\ pc' = "comm_error"
    /\ UNCHANGED <<fs, doc, response_text, projectVars, askVars>>

\* lines 183-190
Parse ==
    /\ pc = "start"
    /\ matches' = ParseFiles(response_text)
    /\ fs' = RootMade(fs, matches')
    /\ pc' = IF matches' = <<>> THEN "parse_error" ELSE "loop"
    /\ idx' = 1
    /\ created_files' = <<>>
    /\ UNCHANGED <<doc, response_text, run, log, fs0, first, askVars>>

\* lines 191-201: one pass of the for loop.  resolve() stands outside the
\* inner try, so its exception ends the command in the outer except.
Entry ==
    /\ pc = "loop"
    /\ idx <= Len(matches)
    /\ LET m == matches[idx]
           abs_path == Resolve(fs, Joined(m))
           o == Outcome(fs, m)
       IN  /\ pc' = IF o = "raise" THEN "aborted" ELSE "loop"
           /\ idx' = IF o = "raise" THEN idx ELSE idx + 1
           /\ fs' = IF o \in {"created", "error"}
                    THEN Written(fs, abs_path, Strip(m.content)) ELSE fs
           /\ created_files' = IF o = "created"
                               THEN Append(created_files, RelPath(m))
                               ELSE created_files
           /\ log' = IF o = "raise" THEN log
                     ELSE Append(log, [abs |-> abs_path, outcome |-> o])
    /\ UNCHANGED <<doc, response_text, run, matches, fs0, first, askVars>>

\* lines 202-203
Report ==
    /\ pc = "loop"
    /\ idx > Len(matches)
    /\ pc' = "done"
    /\ UNCHANGED <<fs, doc, response_text, run, matches, idx, created_files,
                   log, fs0, first, askVars>>

\* the command is run once more on the same response and output directory
Again ==
    /\ pc \in Terminal
    /\ run = 1
    /\ run' = 2
    /\ first' = [pc |-> pc, fs |-> fs, created |-> Len(created_files)]
    /\ fs0' = fs
    /\ pc' = "start"
    /\ matches' = <<>>
    /\ idx' = 0
    /\ created_files' = <<>>
    /\ log' = <<>>
    /\ UNCHANGED <<fs, doc, response_text, askVars>>

Init ==
    /\ doc \in Docs(ProjectChunks)
    /\ response_text = Flatten(doc)
    /\ fs \in FsChoices
    /\ fs0 = fs
    /\ pc = "start"
    /\ run = 1
    /\ matches = <<>>
    /\ idx = 0
    /\ created_files = <<>>
    /\ log = <<>>
    /\ first = [pc |-> "start", fs |-> fs, created |-> 0]
    /\ extract_language = None
    /\ output_file = None
    /\ warned = FALSE
    /\ saved = None
    /\ extracted = None

Next == OracleFails \/ Parse \/ Entry \/ Report \/ Again

Spec == Init /\ [][Next]_vars

-----------------------------------------------------------------------------
(* ask, from the response on (lines 106-122).  The context file only      *)
(* shapes the prompt that is sent.                                         *)

Languages == {None, Some(<<>>), Some(<<"p", "y">>), Some(<<"S", "H">>),
              Some(<<"r">>)}

OutputFiles == {None, Some(Append(output_path, <<"a">>)),
                Some(output_path \o << <<"n">>, <<"f">> >>)}

\* lines 112-115: content_to_save before line 116
FirstTry(text, language) ==
    IF Truthy(language) THEN extract_code(text, language) ELSE None

\* line 116: the warning is printed when line 115 left nothing to save
Warns(text, language) ==
    Truthy(language) /\ ~Truthy(extract_code(text, language))

\* lines 112-117: content_to_save at the write
ContentToSave(text, language) ==
    LET c == FirstTry(text, language)
        e == extract_code(text, None)
    IN  IF Truthy(c) THEN Val(c)
        ELSE IF Truthy(e) THEN Val(e)
        ELSE text

\* chat.send_message raises: the outer except reports it
AskOracleFails ==
    /\ pc = "start"
    /\ pc' = "comm_error"
    /\ UNCHANGED <<fs, doc, response_text, projectVars, askVars>>

Ask ==
    /\ pc = "start"
    /\ pc' = "done"
    /\ IF output_file = None
       THEN UNCHANGED <<fs, warned, saved, extracted>>
       ELSE /\ extracted' = FirstTry(response_text, extract_language)
            /\ warned' = Warns(response_text, extract_language)
            /\ fs' = Written(fs, Val(output_file),
                             ContentToSave(response_text, extract_language))
            /\ saved' = IF WriteOk(fs, Val(output_file))
                        THEN Some(ContentToSave(response_text, extract_language))
                        ELSE None
    /\ UNCHANGED <<doc, response_text, projectVars, extract_language, output_file>>

InitAsk ==
    /\ doc \in Docs(AskChunks)
    /\ response_text = Flatten(doc)
    /\ fs = FsDir
    /\ fs0 = fs
    /\ pc = "start"
    /\ run = 1
    /\ matches = <<>>
    /\ idx = 0
    /\ created_files = <<>>
    /\ log = <<>>
    /\ first = [pc |-> "start", fs |-> fs, created |-> 0]
    /\ extract_language \in Languages
    /\ output_file \in OutputFiles
    /\ warned = FALSE
    /\ saved = None
    /\ extracted = None

NextAsk == AskOracleFails \/ Ask

SpecAsk == InitAsk /\ [][NextAsk]_vars

-----------------------------------------------------------------------------
(* Properties of create_project, checked under Spec *)

\* the output root itself or something below it
InsideRoot(p) == p = output_path \/ InParents(output_path, p)

\* what differs between filesystems f and g
Changed(f, g) ==
    {p \in DOMAIN f \cup DOMAIN g :
        p \notin DOMAIN f \/ p \notin DOMAIN g \/ f[p] # g[p]}

HasNewline(str) == \E k \in 1..Len(str) : str[k] = "\n"

\* C1: whatever the entries and the filesystem, an invocation creates or
\* changes nothing outside the output root, and every entry whose path
\* resolves outside the root is skipped as a path escape.
NoWriteOutsideRoot ==
    /\ \A p \in Changed(fs0, fs) : InsideRoot(p)
    /\ \A k \in 1..Len(log) :
          ~InsideRoot(log[k].abs) => log[k].outcome = "escape"

\* C1's case: the loop has ended, an entry that resolved outside the root
\* (through .. or through the link) was skipped and another one was written
EscapeSkipped ==
    /\ pc = "done"
    /\ \E k \in 1..Len(log) :
          ~InsideRoot(log[k].abs) /\ log[k].outcome = "escape"
    /\ \E k \in 1..Len(log) : log[k].outcome = "created"

\* C3: a response without a FILE/code-block pair ends in the parse error,
\* and then nothing was written and no entry was handled; a response of
\* prose and bare marker lines is such a response.
ParseErrorTouchesNothing ==
    /\ pc = "parse_error" =>
          matches = <<>> /\ fs = fs0 /\ created_files = <<>> /\ log = <<>>
    /\ pc \in {"loop", "done", "aborted"} => matches # <<>>
    /\ (pc \notin {"start", "comm_error"} /\ \A k \in 1..Len(doc) : doc[k] \in NoBlockChunks)
          => pc = "parse_error"

\* C3's case: the parse error on a response that is not empty, where the
\* output directory does not exist (and still does not)
ParseErrorSeen ==
    /\ pc = "parse_error"
    /\ doc # <<>>
    /\ output_path \notin DOMAIN fs

\* C9 as amended: an entry passes the containment check exactly when its
\* resolved path is a proper descendant of the resolved output root; an
\* entry that resolves to the root itself is skipped as a path escape.
ContainmentIsProperDescendant ==
    \A k \in 1..Len(log) :
        (log[k].outcome # "escape") <=> InParents(output_path, log[k].abs)

\* C9 as stated: an entry passes the check exactly when its resolved path
\* is the output root or a descendant of it.
ContainmentAcceptsRoot ==
    \A k \in 1..Len(log) :
        (log[k].outcome # "escape") <=> InsideRoot(log[k].abs)

\* C9's case: an entry that resolved to the output root was skipped
RootEntrySkipped ==
    \E k \in 1..Len(log) :
        log[k].abs = output_path /\ log[k].outcome = "escape"

\* the response is made of well-formed FILE blocks only
WellFormed == \A k \in 1..Len(doc) : doc[k] \in FileBlocks

\* every path the response names resolves, and to a place below the root
AllBelowRoot ==
    \A k \in 1..Len(doc) :
        LET p == JoinPath(output_path, FilePaths[doc[k]])
        IN  ~ResolveRaises(p) /\ InParents(output_path, Resolve(fs, p))

NoWriteError == \A k \in 1..Len(log) : log[k].outcome # "error"

\* C4: a response of N well-formed FILE blocks whose paths all resolve
\* below the output root, handled without an I/O failure, ends with N
\* entries created (one per block, in order), none skipped, and each
\* entry's file on disk.
AllEntriesCreated ==
    (pc = "done" /\ WellFormed /\ AllBelowRoot /\ NoWriteError) =>
        /\ Len(matches) = Len(doc)
        /\ Len(created_files) = Len(doc)
        /\ \A k \in 1..Len(doc) :
              /\ created_files[k].parts = Parts(FilePaths[doc[k]])
              /\ log[k].outcome = "created"
              /\ IsFile(fs, Resolve(fs, JoinPath(output_path, FilePaths[doc[k]])))

\* C4's case: three well-formed blocks, one of them in a subdirectory, all
\* below the root and all written
ThreeCreated ==
    /\ pc = "done"
    /\ Len(doc) = 3
    /\ WellFormed /\ AllBelowRoot /\ NoWriteError
    /\ \E k \in 1..3 : doc[k] = 3
    /\ Len(created_files) = 3

\* C5: entries are handled in document order, and when two of them name
\* the same relative path and the earlier one was written, the later one is
\* written too and the file holds its stripped content (until an entry
\* after it is written to the same place).
LaterEntryWins ==
    \A j, k \in 1..Len(log) :
        (/\ j < k
         /\ Strip(matches[j].path) = Strip(matches[k].path)
         /\ log[j].outcome = "created"
         /\ \A i \in (k + 1)..Len(log) : log[i].abs # log[k].abs)
        => /\ log[k].outcome = "created"
           /\ log[k].abs = Resolve(fs, Joined(matches[k]))
           /\ fs[log[k].abs] = File(Strip(matches[k].content))

\* C5's case: two entries for the same path with different content, both
\* written, the second one last
DuplicateWritten ==
    /\ pc = "done"
    /\ \E j, k \in 1..Len(matches) :
          /\ j < k
          /\ matches[j].path = matches[k].path
          /\ Strip(matches[j].content) # Strip(matches[k].content)
          /\ log[j].outcome = "created"
          /\ log[k].outcome = "created"
          /\ \A i \in (k + 1)..Len(matches) : log[i].abs # log[k].abs

Parsed == {"done", "parse_error", "aborted"}

\* C6: when the command is run a second time on the same response and the
\* same output directory, the second invocation ends as the first did,
\* leaves the filesystem as the first left it and creates as many entries.
SecondRunSame ==
    (run = 2 /\ pc \in Parsed /\ first.pc \in Parsed) =>
        /\ pc = first.pc
        /\ fs = first.fs
        /\ Len(created_files) = first.created

\* C6's case: the second invocation has ended; it wrote two entries, one
\* of them over a file the first invocation left, and met a write error
SecondRunDone ==
    /\ run = 2
    /\ pc = "done"
    /\ Len(created_files) = 2
    /\ \E k \in 1..Len(log) : log[k].outcome = "error"
    /\ \E k \in 1..Len(log) : log[k].outcome = "created" /\ IsFile(fs0, log[k].abs)

\* C2 as stated: a per-file problem never ends the loop early, so once the
\* command has ended every entry that is below the root and writable has
\* been written.
BatchNeverAborted ==
    pc \in {"done", "aborted"} =>
        \A k \in 1..Len(matches) :
            Outcome(fs, matches[k]) = "created"
                => IsFile(fs, Resolve(fs, Joined(matches[k])))

\* C10 as stated: the path of every parsed pair is text of one marker
\* line, so it holds no newline.
PathFromOneLine ==
    \A k \in 1..Len(matches) : ~HasNewline(matches[k].path)

-----------------------------------------------------------------------------
(* Properties of extract_code and ask, checked under SpecAsk *)

\* the tags of the blocks, in document order, that equal language when
\* case is ignored
TagMatches(bs, language) ==
    {k \in 1..Len(bs) : bs[k].lang # <<>> /\ Lower(bs[k].lang) = Lower(language)}

\* the reference of C7
Reference(text, language) ==
    LET bs == FindBlocks(text, 1)
    IN  IF bs = <<>> THEN None
        ELSE IF language # None /\ TagMatches(bs, Val(language)) # {}
        THEN Some(Strip(bs[Min(TagMatches(bs, Val(language)))].code))
        ELSE Some(Strip(bs[1].code))

\* C7: on every response, extract_code agrees with the reference for the
\* language asked for (given, empty or omitted) and for no language, the
\* two calls ask makes; what ask got at line 115 is the reference's value.
ExtractMatchesReference ==
    /\ extract_code(response_text, extract_language)
          = Reference(response_text, extract_language)
    /\ extract_code(response_text, None) = Reference(response_text, None)
    /\ (pc = "done" /\ output_file # None /\ Truthy(extract_language))
          => extracted = Reference(response_text, extract_language)

\* C7's case: the first block carries another tag, a later block's tag is
\* the language in other case, and that block's content was extracted
LaterBlockExtracted ==
    LET bs == FindBlocks(response_text, 1)
    IN  /\ pc = "done"
        /\ output_file # None
        /\ Truthy(extract_language)
        /\ Len(bs) >= 2
        /\ bs[1].lang # <<>>
        /\ 1 \notin TagMatches(bs, Val(extract_language))
        /\ \E k \in TagMatches(bs, Val(extract_language)) :
              /\ bs[k].lang # Val(extract_language)
              /\ extracted = Some(Strip(bs[k].code))
              /\ extracted # Some(Strip(bs[1].code))

\* C8 as stated: when ask saves to a file with a language asked for, and
\* the response has blocks but none with that tag, the warning is printed.
FallbackWarned ==
    LET bs == FindBlocks(response_text, 1)
    IN  (/\ pc = "done"
         /\ output_file # None
         /\ Truthy(extract_language)
         /\ bs # <<>>
         /\ TagMatches(bs, Val(extract_language)) = {})
        => warned

=============================================================================
